---------------------------- MODULE Spec2Model ----------------------------
(***************************************************************************)
(* Chunked upload of a payload to a size-limited ledger account, as done   *)
(* by solana-cli (src/src/main.rs, src/src/client.rs, src/src/utils.rs):   *)
(* create the account, write the payload in packet-sized chunks through    *)
(* the TPU client, then deploy / finalize and hand over the authority.     *)
(***************************************************************************)
EXTENDS Integers, Sequences, FiniteSets, TLC

(***************************************************************************)
(* Bounds of the exploration.                                              *)
(***************************************************************************)
MaxLen == 3        \* longest payload explored by Spec
MaxRuns == 2       \* invocations of the write phase against one account
MaxChunk == 3      \* largest chunk size a crowded message template leaves
MaxExcess == 2     \* bytes by which a crowded baseline may reach past P - 1
MaxPlanLen == 12   \* longest payload explored by SpecChunker
MaxPlanChunk == 5  \* largest chunk size explored by SpecChunker
MaxIndexSpan == 60 \* chunk indexes explored by SpecOffsets on each side

(***************************************************************************)
(* Program constants.                                                      *)
(***************************************************************************)
PACKET_DATA_SIZE == 1232   \* solana_sdk::packet::PACKET_DATA_SIZE
SIGNATURE_BYTES == 64      \* one Signature::default() slot
PUBKEY_BYTES == 32         \* one account key of the message
HASH_BYTES == 32           \* the recent blockhash of the message
HEADER_BYTES == 3          \* MessageHeader: three u8 counters
WRITE_DATA_FIXED == 16     \* bincode Write{offset,bytes}: u32 tag, u32 offset, u64 length
PROGRAM_SIZE_UNIT == 1000
\* limits of the relay set, imported from solana_bridge::round_loader
MIN_RELAYS == 3
MAX_RELAYS == 100  \* deploy: max_data_len = program-size * 1000

Min(a, b) == IF a < b THEN a ELSE b

\* usize::wrapping_sub, on a 16-bit word
wrapping_sub(a, b) == (a - b) % 65536

\* usize::saturating_sub
saturating_sub(a, b) == IF a >= b THEN a - b ELSE 0

(***************************************************************************)
(* Serialized size of a transaction (bincode of Transaction, with          *)
(* short_vec length prefixes) built from a message template t carrying n   *)
(* payload bytes in its single instruction.                                *)
(***************************************************************************)
ShortVecLen(n) == IF n < 128 THEN 1 ELSE IF n < 16384 THEN 2 ELSE 3

MessageSize(t, n) ==
    HEADER_BYTES
    + ShortVecLen(t.keys) + PUBKEY_BYTES * t.keys
    + HASH_BYTES
    + ShortVecLen(1)
    + 1 + ShortVecLen(t.accts) + t.accts
    + ShortVecLen(t.data0 + n) + t.data0 + n

TransactionSize(t, n) ==
    ShortVecLen(t.sigs) + SIGNATURE_BYTES * t.sigs + MessageSize(t, n)

\* the message create_msg builds in write_buffer: payer, buffer and loader
\* keys, two account metas, bincode-encoded Write instruction
WriteBufferTemplate == [sigs |-> 1, keys |-> 3, accts |-> 2, data0 |-> WRITE_DATA_FIXED]

\* templates whose fixed overhead is close to the packet limit: 30 account
\* keys and 126 bytes of fixed instruction data, so that with 40 - c account
\* metas the baseline transaction is PACKET_DATA_SIZE - 1 - c bytes long and
\* two payload bytes lengthen the short_vec prefix of the instruction data
CrowdedTemplates ==
    {[sigs |-> 1, keys |-> 30, accts |-> 40 - c, data0 |-> 126] :
        c \in (0 - MaxExcess)..MaxChunk}

Templates == {WriteBufferTemplate} \cup CrowdedTemplates

\* without the byte kept back for the short_vec length prefix
calculate_max_chunk_size_no_slack(t) ==
    saturating_sub(PACKET_DATA_SIZE, TransactionSize(t, 0))

calculate_max_chunk_size(t) ==
    saturating_sub(saturating_sub(PACKET_DATA_SIZE, TransactionSize(t, 0)), 1)

(***************************************************************************)
(* The chunk plan: slice::chunks(chunk_size) zipped with 0.., each chunk   *)
(* paired with (i * chunk_size) as u32.  Offsets stay far below 2^32 in    *)
(* the explored range.                                                     *)
(***************************************************************************)
\* slice::chunks_exact: a shorter last chunk is left out
RECURSIVE chunks_exact(_, _)
chunks_exact(v, c) ==
    IF Len(v) < c THEN <<>>
    ELSE <<SubSeq(v, 1, c)>> \o chunks_exact(SubSeq(v, c + 1, Len(v)), c)

RECURSIVE chunks(_, _)
chunks(v, c) ==
    IF Len(v) = 0 THEN <<>>
    ELSE LET sz == Min(Len(v), c)
         IN <<SubSeq(v, 1, sz)>> \o chunks(SubSeq(v, sz + 1, Len(v)), c)

\* the chunk index taken for the byte offset
unit_offset_index(i, c) == i

\* (i * chunk_size) as u32; the products of the plans built here are far
\* below 2^32, the narrowing itself is as_u32
unit_offset(i, c) == i * c

\* an empty payload is planned as one unit without bytes
plan_never_empty(data, c) ==
    LET cs == IF data = <<>> THEN <<(<<>>)>> ELSE chunks(data, c)
    IN [j \in 1..Len(cs) |-> [offset |-> unit_offset(j - 1, c), bytes |-> cs[j]]]

plan(data, c) ==
    LET cs == chunks(data, c)
    IN [j \in 1..Len(cs) |-> [offset |-> unit_offset(j - 1, c), bytes |-> cs[j]]]

VARIABLES
    cmd,             \* the sub-command of main
    program_data,    \* the payload: program bytes or the serialized proposal
    template,        \* shape of the message create_msg builds
    program_size,    \* deploy: --program-size as parsed, -1 when it does not parse
    proposal_relays, \* create-relay-round: number of values of --proposal-relays
    program_keypair_given, \* deploy: --program-keypair is on the command line
    pc,              \* the call main is at (or failed in)
    result,          \* outcome of the run: [kind, count]
    chunk_size,      \* write phase: chunk size in use, -1 before it is computed
    write_messages,  \* write phase: the plan handed to the TPU client
    dispatch,        \* send_and_confirm_messages_with_spinner: "idle", "waiting",
                     \* "returned" (Ok with one outcome per message), "failed"
                     \* (Err) or "expired" (Err, retries exhausted)
    status,          \* per write unit: "pending", "ok" or "err"
    acct_state,      \* ledger: "None", "Buffer" or "Finalized"
    acct_len,        \* ledger: data length of the account
    acct_data,       \* ledger: bytes written so far (unwritten bytes are zero)
    acct_authority,  \* ledger: identity allowed to write / finalize
    upgrade_authority, \* ledger: upgrade authority of the deployed program
    programdata_len, \* ledger: maximum data length of the deployed program
    before,          \* acct_data when the current write phase started
    run,             \* number of the current write phase invocation
    issued,          \* kinds of remote requests issued in the current run
    unit_index,      \* create_msg: index i of the chunk the message is built for
    message_offset,  \* create_msg: the u32 offset the message carries, as
                     \* two 16-bit halves; -1 before it is computed
    keypair_file     \* the <program>-keypair.json file: "absent" or "written"

vars == <<cmd, program_data, template, program_size, proposal_relays, pc, result,
          chunk_size, write_messages, dispatch, status, acct_state, acct_len,
          acct_data, acct_authority, upgrade_authority, programdata_len, before,
          run, issued, unit_index, message_offset, program_keypair_given,
          keypair_file>>

inputs == <<cmd, program_data, template, program_size, proposal_relays,
            program_keypair_given>>
ledger == <<acct_state, acct_len, acct_data, acct_authority, upgrade_authority,
            programdata_len>>
narrowing == <<unit_index, message_offset>>
writes == <<chunk_size, write_messages, dispatch, status, before, run>>

Bytes == {0, 1}

NoOffset == [hi |-> -1, lo |-> -1]

RECURSIVE SeqsUpTo(_, _)
SeqsUpTo(S, n) ==
    IF n = 0 THEN {<<>>}
    ELSE LET shorter == SeqsUpTo(S, n - 1)
         IN shorter \cup {Append(s, x) : s \in {q \in shorter : Len(q) = n - 1}, x \in S}

Payloads == SeqsUpTo(Bytes, MaxLen)

Commands == {"deploy", "upload-program-buffer", "create-relay-round"}

Running == [kind |-> "Running", count |-> 0]
Ok == [kind |-> "Ok", count |-> 0]
Err(k) == [kind |-> k, count |-> 0]
WriteTransactions(n) == [kind |-> "WriteTransactions", count |-> n]

AccountByte(d, k) == IF k \in DOMAIN d THEN d[k] ELSE 0

Units == DOMAIN write_messages
Pending == {i \in DOMAIN status : status[i] = "pending"}
Confirmed == {i \in DOMAIN status : status[i] = "ok"}
Failed == {i \in DOMAIN status : status[i] = "err"}

\* numbers of relays given on the command line, around both limits
RelayCounts == {MIN_RELAYS - 1, MIN_RELAYS, MAX_RELAYS, MAX_RELAYS + 1}

Init ==
    /\ cmd \in Commands
    /\ program_data \in Payloads
    /\ template \in Templates
    /\ program_size \in IF cmd = "deploy" THEN {-1, 0, 1} ELSE {-1}
    /\ proposal_relays \in IF cmd = "create-relay-round" THEN RelayCounts ELSE {0}
    /\ program_keypair_given \in IF cmd = "deploy" THEN BOOLEAN ELSE {FALSE}
    /\ pc = "get_matches"
    /\ result = Running
    /\ chunk_size = -1
    /\ write_messages = <<>>
    /\ dispatch = "idle"
    /\ status = <<>>
    /\ acct_state = "None"
    /\ acct_len = 0
    /\ acct_data = <<>>
    /\ acct_authority = "none"
    /\ upgrade_authority = "none"
    /\ programdata_len = -1
    /\ before = <<>>
    /\ run = 0
    /\ issued = {}
    /\ unit_index = 0
    /\ message_offset = NoOffset
    /\ keypair_file = "absent"

(***************************************************************************)
(* main: the order of the calls of each sub-command.                       *)
(***************************************************************************)
Executable == cmd \in {"deploy", "upload-program-buffer"}

\* the value of --program-size is taken as a number of bytes
max_data_len_unscaled ==
    IF program_size >= 0 THEN program_size ELSE Len(program_data)

\* deploy: Some(len) => len * 1000, None => program_data.len()
max_data_len ==
    IF program_size >= 0 THEN program_size * PROGRAM_SIZE_UNIT ELSE Len(program_data)

\* length passed to create_buffer by the sub-command
buffer_len == IF cmd = "deploy" THEN max_data_len ELSE Len(program_data)

\* create_proposal_ix carries no length: the remote program sizes the
\* account; it is taken to hold exactly the serialized record
proposal_len == Len(program_data)

\* deploy goes from the write phase straight to the transfer of authority
after_write_skips_deploy ==
    CASE cmd = "deploy" -> "set_program_authority"
      [] cmd = "upload-program-buffer" -> "set_buffer_authority"
      [] OTHER -> "finalize_relay_round_proposal"

\* the call that follows a successful write phase
after_write ==
    CASE cmd = "deploy" -> "program_keypair"
      [] cmd = "upload-program-buffer" -> "set_buffer_authority"
      [] OTHER -> "finalize_relay_round_proposal"

\* a call returns Err and main's ? ends the run
Fail(at, kind) ==
    /\ pc' = at
    /\ result' = Err(kind)

(***************************************************************************)
(* Argument parsing: clap checks the number of values of --proposal-relays *)
(* in get_matches, before the connection is made and before any            *)
(* sub-command runs; on a violation it prints the usage error and exits.   *)
(***************************************************************************)
\* only the upper limit is declared
values_in_range_no_min(n) == n <= MAX_RELAYS

\* min_values(MIN_RELAYS) and max_values(MAX_RELAYS)
values_in_range(n) == n >= MIN_RELAYS /\ n <= MAX_RELAYS

get_matches ==
    /\ pc = "get_matches" /\ result = Running
    /\ IF cmd = "create-relay-round" /\ ~values_in_range(proposal_relays)
       THEN Fail("get_matches", "ArgumentError")
       ELSE pc' = "start" /\ result' = result
    /\ UNCHANGED <<inputs, narrowing, keypair_file, writes, ledger, issued>>

(***************************************************************************)
(* Allocate: one create transaction, sent and confirmed; a rejection is    *)
(* returned as ClientError.                                                *)
(***************************************************************************)
\* the create call returns Ok whatever the remote system answered
Allocate_unchecked(at, len) ==
    /\ issued' = issued \cup {"Allocate"}
    /\ pc' = at
    /\ result' = result
    /\ \E accepted \in BOOLEAN :
        IF accepted
        THEN /\ acct_state' = "Buffer"
             /\ acct_len' = len
             /\ acct_data' = <<>>
             /\ acct_authority' = "payer"
             /\ UNCHANGED <<upgrade_authority, programdata_len>>
        ELSE UNCHANGED ledger
    /\ UNCHANGED <<inputs, narrowing, keypair_file, writes>>

Allocate(at, len) ==
    /\ issued' = issued \cup {"Allocate"}
    /\ \E accepted \in BOOLEAN :
        IF accepted
        THEN /\ acct_state' = "Buffer"
             /\ acct_len' = len
             /\ acct_data' = <<>>
             /\ acct_authority' = "payer"
             /\ UNCHANGED <<upgrade_authority, programdata_len>>
             /\ pc' = at
             /\ result' = result
        ELSE /\ Fail(at, "ClientError")
             /\ UNCHANGED ledger
    /\ UNCHANGED <<inputs, narrowing, keypair_file, writes>>

create_buffer ==
    /\ Executable /\ pc = "start" /\ result = Running
    /\ Allocate("create_buffer", buffer_len)

create_relay_round_proposal ==
    /\ cmd = "create-relay-round" /\ pc = "start" /\ result = Running
    /\ Allocate("create_relay_round_proposal", proposal_len)

(***************************************************************************)
(* Write: blockhash, chunk size, plan, TPU client, then all messages are   *)
(* handed to send_and_confirm_messages_with_spinner at once.               *)
(***************************************************************************)
\* only the first message is handed over
submitted_first_only(msgs) == [i \in DOMAIN msgs \cap {1} |-> "pending"]

\* every message of the plan is signed and sent before any is confirmed
submitted(msgs) == [i \in DOMAIN msgs |-> "pending"]

NoPlan ==
    /\ chunk_size' = -1
    /\ write_messages' = <<>>
    /\ status' = <<>>
    /\ dispatch' = "idle"

StartWrite(at, prior) ==
    /\ run' = run + 1
    /\ before' = acct_data
    /\ \E env \in {"ok", "blockhash", "ws_url", "tpu_client"} :
        IF env = "blockhash"
        THEN /\ Fail(at, "ClientError")
             /\ NoPlan
             /\ issued' = prior
        ELSE /\ chunk_size' = calculate_max_chunk_size(template)
             /\ IF chunk_size' = 0
                THEN \* slice::chunks panics on a chunk size of zero
                     /\ Fail(at, "Panic")
                     /\ write_messages' = <<>>
                     /\ status' = <<>>
                     /\ dispatch' = "idle"
                     /\ issued' = prior
                ELSE /\ write_messages' = plan(program_data, chunk_size')
                     /\ IF env = "ok"
                        THEN /\ status' = submitted(write_messages')
                             /\ dispatch' = "waiting"
                             /\ issued' = IF write_messages' = <<>> THEN prior
                                          ELSE prior \cup {"Write"}
                             /\ pc' = at
                             /\ result' = Running
                        ELSE /\ Fail(at, IF env = "ws_url" THEN "InvalidConfig"
                                         ELSE "TpuSenderError")
                             /\ status' = <<>>
                             /\ dispatch' = "idle"
                             /\ issued' = prior
    /\ UNCHANGED <<inputs, narrowing, keypair_file, ledger>>

write_buffer ==
    /\ Executable /\ pc = "create_buffer" /\ result = Running
    /\ StartWrite("write_buffer", issued)

write_relay_round_proposal ==
    /\ cmd = "create-relay-round" /\ pc = "create_relay_round_proposal"
    /\ result = Running
    /\ StartWrite("write_relay_round_proposal", issued)

Waiting == dispatch = "waiting" /\ result = Running

\* the write messages are signed by the new authority
write_signer_new_authority == "authority"

\* write(buffer, &payer.pubkey(), ..) signed with &[payer]
write_signer == "payer"

\* the ledger applies a write to an unfinalized account when its signer is
\* the authority of the account and it fits the account
LedgerAccepts(m) ==
    /\ acct_state = "Buffer"
    /\ acct_authority = write_signer
    /\ m.offset + Len(m.bytes) <= acct_len

ApplyWrite(d, m) ==
    [k \in DOMAIN d \cup (m.offset .. m.offset + Len(m.bytes) - 1) |->
        IF k >= m.offset /\ k < m.offset + Len(m.bytes)
        THEN m.bytes[k - m.offset + 1]
        ELSE d[k]]

\* a write transaction is confirmed without error
write_confirmed(i) ==
    /\ Waiting /\ i \in Pending
    /\ LedgerAccepts(write_messages[i])
    /\ acct_data' = ApplyWrite(acct_data, write_messages[i])
    /\ status' = [status EXCEPT ![i] = "ok"]
    /\ UNCHANGED <<inputs, narrowing, keypair_file, pc, result, chunk_size, write_messages, dispatch,
                   acct_state, acct_len, acct_authority, upgrade_authority,
                   programdata_len, before, run, issued>>

\* a write transaction is confirmed with a TransactionError
write_rejected(i) ==
    /\ Waiting /\ i \in Pending
    /\ status' = [status EXCEPT ![i] = "err"]
    /\ UNCHANGED <<inputs, narrowing, keypair_file, pc, result, chunk_size, write_messages, dispatch,
                   ledger, before, run, issued>>

\* send_and_confirm_messages_with_spinner returns Err: signing or RPC
\* failure
dispatch_failed ==
    /\ Waiting /\ Pending # {}
    /\ dispatch' = "failed"
    /\ result' = Err("TpuSenderError")
    /\ UNCHANGED <<inputs, narrowing, keypair_file, pc, chunk_size, write_messages, status, before, run,
                   ledger, issued>>

\* the transactions still unconfirmed are reported as failed units
unconfirmed_counted == WriteTransactions(Cardinality(Failed) + Cardinality(Pending))

\* the Err of the call, converted by ? into Error::TpuSenderError
max_retries_exceeded == Err("TpuSenderError")

\* send_and_confirm_messages_with_spinner gives up: the blockhash expired
\* for the last time with transactions still unconfirmed, the call returns
\* Err for the whole batch
dispatch_expired ==
    /\ Waiting /\ Pending # {}
    /\ dispatch' = "expired"
    /\ result' = max_retries_exceeded
    /\ UNCHANGED <<inputs, narrowing, keypair_file, pc, chunk_size, write_messages, status, before, run,
                   ledger, issued>>

\* only the first error is kept
transaction_errors_first == IF Failed = {} THEN {} ELSE {CHOOSE i \in Failed : TRUE}

\* the errors are dropped
transaction_errors_dropped == {}

\* into_iter().flatten().collect(): the units whose outcome is Some(error)
transaction_errors == Failed

\* every transaction has a status: the call returns Ok, the errors are
\* collected and counted
write_finished ==
    /\ Waiting /\ Pending = {}
    /\ dispatch' = "returned"
    /\ IF transaction_errors # {}
       THEN /\ result' = WriteTransactions(Cardinality(transaction_errors))
            /\ pc' = pc
       ELSE /\ result' = result
            /\ pc' = after_write
    /\ UNCHANGED <<inputs, narrowing, keypair_file, chunk_size, write_messages, status, before, run,
                   ledger, issued>>

\* after a run that ended in an error a caller invokes the write phase
\* again for the same account and payload
write_again ==
    /\ result \notin {Running, Ok} /\ acct_state = "Buffer"
    /\ run > 0 /\ run < MaxRuns
    /\ StartWrite(IF Executable THEN "write_buffer" ELSE "write_relay_round_proposal", {})

(***************************************************************************)
(* Finalize and Authority-Transfer.                                        *)
(***************************************************************************)
\* the failure of write_keypair_file is dropped and main goes on
keypair_write_ignored == pc' = "deploy" /\ result' = result

\* write_keypair_file(..).map_err(|_| Error::KeypairReadError)?
keypair_write_failed == Fail("program_keypair", "KeypairReadError")

\* the program keypair: read from the file given with --program-keypair, or
\* made by Keypair::new() and written to the keypair file next to the
\* program file
program_keypair ==
    /\ pc = "program_keypair" /\ result = Running
    /\ \E ok \in BOOLEAN :
        IF program_keypair_given
        THEN /\ IF ok THEN pc' = "deploy" /\ result' = result
                ELSE Fail("program_keypair", "KeypairReadError")
             /\ UNCHANGED keypair_file
        ELSE IF ok
             THEN /\ keypair_file' = "written"
                  /\ pc' = "deploy" /\ result' = result
             ELSE /\ keypair_write_failed
                  /\ UNCHANGED keypair_file
    /\ UNCHANGED <<inputs, narrowing, writes, ledger, issued>>

\* the program is deployed with the target as its upgrade authority
deploy_upgrade_authority_target == "authority"

\* deploy_with_max_program_len(.., upgrade_authority_address = payer, ..)
deploy_upgrade_authority == "payer"

\* the program is deployed with room for the program bytes only
deploy_max_data_len_payload == Len(program_data)

\* the max_data_len main computed is passed on to deploy_with_max_program_len
deploy_max_data_len == max_data_len

deploy ==
    /\ pc = "deploy" /\ result = Running
    /\ issued' = issued \cup {"Finalize"}
    /\ \E accepted \in BOOLEAN :
        IF accepted
        THEN /\ acct_state' = "Finalized"
             /\ upgrade_authority' = deploy_upgrade_authority
             /\ programdata_len' = deploy_max_data_len
             /\ pc' = "set_program_authority"
             /\ result' = result
        ELSE /\ Fail("deploy", "ClientError")
             /\ UNCHANGED <<acct_state, upgrade_authority, programdata_len>>
    /\ UNCHANGED <<inputs, narrowing, keypair_file, writes, acct_len, acct_data, acct_authority>>

\* set_upgrade_authority(program, current = payer, new = authority)
set_program_authority ==
    /\ pc = "set_program_authority" /\ result = Running
    /\ issued' = issued \cup {"AuthorityTransfer"}
    /\ \E accepted \in BOOLEAN :
        IF accepted
        THEN /\ upgrade_authority' = "authority"
             /\ pc' = "done"
             /\ result' = Ok
        ELSE /\ Fail("set_program_authority", "ClientError")
             /\ UNCHANGED upgrade_authority
    /\ UNCHANGED <<inputs, narrowing, keypair_file, writes, acct_state, acct_len, acct_data, acct_authority,
                   programdata_len>>

set_buffer_authority ==
    /\ pc = "set_buffer_authority" /\ result = Running
    /\ issued' = issued \cup {"AuthorityTransfer"}
    /\ \E accepted \in BOOLEAN :
        IF accepted
        THEN /\ acct_authority' = "authority"
             /\ pc' = "done"
             /\ result' = Ok
        ELSE /\ Fail("set_buffer_authority", "ClientError")
             /\ UNCHANGED acct_authority
    /\ UNCHANGED <<inputs, narrowing, keypair_file, writes, acct_state, acct_len, acct_data,
                   upgrade_authority, programdata_len>>

finalize_relay_round_proposal ==
    /\ pc = "finalize_relay_round_proposal" /\ result = Running
    /\ issued' = issued \cup {"Finalize"}
    /\ \E accepted \in BOOLEAN :
        IF accepted
        THEN /\ acct_state' = "Finalized"
             /\ pc' = "done"
             /\ result' = Ok
        ELSE /\ Fail("finalize_relay_round_proposal", "ClientError")
             /\ UNCHANGED acct_state
    /\ UNCHANGED <<inputs, narrowing, keypair_file, writes, acct_len, acct_data, acct_authority,
                   upgrade_authority, programdata_len>>

\* the write messages name the program's address
request_accounts_write_program(kind) ==
    CASE cmd = "create-relay-round" -> {"proposal"}
      [] kind = "Write" -> {"program"}
      [] kind = "Finalize" -> {"buffer", "program"}
      [] kind = "AuthorityTransfer" /\ cmd = "deploy" -> {"program"}
      [] OTHER -> {"buffer"}

\* the accounts a request of each kind names: "buffer" is buffer.pubkey(),
\* "program" is program.pubkey(), "proposal" is the address the proposal
\* instructions derive from (payer, event_timestamp, event_transaction_lt,
\* event_configuration); deploy names the buffer it reads and the program
\* it creates, set_program_authority names the program
request_accounts(kind) ==
    CASE cmd = "create-relay-round" -> {"proposal"}
      [] kind = "Finalize" -> {"buffer", "program"}
      [] kind = "AuthorityTransfer" /\ cmd = "deploy" -> {"program"}
      [] OTHER -> {"buffer"}

\* the ways of dispatching the write messages: write_buffer and
\* write_relay_round_proposal always go through the TPU client
DispatchModes == {"high-throughput"}

\* sequential dispatch as the specification describes it: the messages are
\* sent one at a time in the order of the plan, each with its outcome
RECURSIVE sequential_dispatch(_, _, _, _)
sequential_dispatch(d, msgs, outcome, i) ==
    IF i > Len(msgs) THEN d
    ELSE sequential_dispatch(IF outcome[i] = "ok" THEN ApplyWrite(d, msgs[i]) ELSE d,
                             msgs, outcome, i + 1)

write_unit_confirmed == \E i \in DOMAIN status : write_confirmed(i)

write_unit_rejected == \E i \in DOMAIN status : write_rejected(i)

Next ==
    \/ get_matches
    \/ create_buffer
    \/ create_relay_round_proposal
    \/ write_buffer
    \/ write_relay_round_proposal
    \/ write_unit_confirmed
    \/ write_unit_rejected
    \/ dispatch_failed
    \/ dispatch_expired
    \/ write_finished
    \/ write_again
    \/ program_keypair
    \/ deploy
    \/ set_program_authority
    \/ set_buffer_authority
    \/ finalize_relay_round_proposal

Spec == Init /\ [][Next]_vars

\* the steps of send_and_confirm_messages_with_spinner: its loop runs on
\* until every transaction has a status or the retries are used up
Dispatcher ==
    \/ write_unit_confirmed
    \/ write_unit_rejected
    \/ dispatch_failed
    \/ dispatch_expired
    \/ write_finished

FairSpec == Spec /\ WF_vars(Dispatcher)

(***************************************************************************)
(* The chunker on its own: a payload and a chunk size are drawn, the plan  *)
(* is built from them.                                                     *)
(***************************************************************************)
PlanPayloads == {[k \in 1..n |-> k % 2] : n \in 0..MaxPlanLen}

InitChunker ==
    /\ cmd = "deploy"
    /\ program_data \in PlanPayloads
    /\ template = WriteBufferTemplate
    /\ program_size = -1
    /\ proposal_relays = 0
    /\ program_keypair_given = FALSE
    /\ pc = "plan"
    /\ result = Running
    /\ chunk_size \in 1..MaxPlanChunk
    /\ write_messages = <<>>
    /\ dispatch = "idle"
    /\ status = <<>>
    /\ acct_state = "None"
    /\ acct_len = 0
    /\ acct_data = <<>>
    /\ acct_authority = "none"
    /\ upgrade_authority = "none"
    /\ programdata_len = -1
    /\ before = <<>>
    /\ run = 0
    /\ issued = {}
    /\ unit_index = 0
    /\ message_offset = NoOffset
    /\ keypair_file = "absent"

build_plan ==
    /\ pc = "plan"
    /\ write_messages' = plan(program_data, chunk_size)
    /\ pc' = "planned"
    /\ UNCHANGED <<inputs, narrowing, keypair_file, result, chunk_size, dispatch, status, ledger, before,
                   run, issued>>

NextChunker == build_plan

SpecChunker == InitChunker /\ [][NextChunker]_vars

(***************************************************************************)
(* The offset of one write message on its own: (i * chunk_size) as u32     *)
(* for chunk indexes around the first product of 2^32 or more. The         *)
(* product and the u32 are kept as 16-bit halves, so that the arithmetic   *)
(* is that of the 64-bit usize and of the 32-bit narrowing.                *)
(***************************************************************************)
HALF == 65536

\* i * c for 0 <= i < 2^31 and 0 < c < 2^15, as [top, hi, lo] with
\* i * c = (top * 2^16 + hi) * 2^16 + lo
usize_mul(i, c) ==
    LET p0 == (i % HALF) * c
        p1 == (i \div HALF) * c + (p0 \div HALF)
    IN [top |-> p1 \div HALF, hi |-> p1 % HALF, lo |-> p0 % HALF]

\* x as u32: the low 32 bits
as_u32(x) == [hi |-> x.hi, lo |-> x.lo]

\* the largest i with i * c < 2^32, from 2^32 - 1 = 2 * (2^31 - 1) + 1
LastFittingIndex(c) ==
    LET m == 2147483647
    IN 2 * (m \div c) + (2 * (m % c) + 1) \div c

\* chunk indexes of a plan: the first ones, those around the first product
\* that does not fit 32 bits, and 2^30
UnitIndexes(c) ==
    (0 .. MaxIndexSpan)
    \cup ((LastFittingIndex(c) - MaxIndexSpan) .. (LastFittingIndex(c) + MaxIndexSpan))
    \cup {HALF * (HALF \div 4)}

InitOffsets ==
    /\ cmd = "deploy"
    /\ program_data = <<>>
    /\ template = WriteBufferTemplate
    /\ program_size = -1
    /\ proposal_relays = 0
    /\ program_keypair_given = FALSE
    /\ pc = "create_msg"
    /\ result = Running
    /\ chunk_size = calculate_max_chunk_size(template)
    /\ write_messages = <<>>
    /\ dispatch = "idle"
    /\ status = <<>>
    /\ acct_state = "None"
    /\ acct_len = 0
    /\ acct_data = <<>>
    /\ acct_authority = "none"
    /\ upgrade_authority = "none"
    /\ programdata_len = -1
    /\ before = <<>>
    /\ run = 0
    /\ issued = {}
    /\ unit_index \in UnitIndexes(chunk_size)
    /\ message_offset = NoOffset
    /\ keypair_file = "absent"

\* create_msg((i * chunk_size) as u32, chunk.to_vec())
create_msg ==
    /\ pc = "create_msg"
    /\ message_offset' = as_u32(usize_mul(unit_index, chunk_size))
    /\ pc' = "created"
    /\ UNCHANGED <<inputs, unit_index, keypair_file, result, writes, ledger, issued>>

NextOffsets == create_msg

SpecOffsets == InitOffsets /\ [][NextOffsets]_vars

(***************************************************************************)
(* Properties.                                                             *)
(***************************************************************************)
CeilDiv(a, b) == (a + b - 1) \div b

\* the plan of the current write phase has been built
Planned == chunk_size > 0 /\ pc # "plan"

UnitRange(m) == m.offset .. (m.offset + Len(m.bytes) - 1)

\* the units of the plan that address byte k of the payload
Covering(k) == {j \in Units : k \in UnitRange(write_messages[j])}

PayloadByte(k) == program_data[k + 1]

\* C1: for every payload length L and chunk size C > 0 the plan has
\* ceil(L/C) units, unit i starts at i*C, every unit is C bytes long except
\* the last, which holds the remainder, and the units cover [0, L) with no
\* gap and no overlap, each carrying the payload bytes of its range.
C1_PlanPartitionsPayload ==
    Planned =>
        LET L == Len(program_data)
            C == chunk_size
            N == Len(write_messages)
        IN /\ N = CeilDiv(L, C)
           /\ \A j \in 1..N : write_messages[j].offset = (j - 1) * C
           /\ \A j \in 1..(N - 1) : Len(write_messages[j].bytes) = C
           /\ N > 0 => /\ Len(write_messages[N].bytes) = L - (N - 1) * C
                       /\ Len(write_messages[N].bytes) \in 1..C
           /\ \A j \in 1..N : UnitRange(write_messages[j]) \subseteq 0..(L - 1)
           /\ \A k \in 0..(L - 1) :
                /\ Cardinality(Covering(k)) = 1
                /\ \A j \in Covering(k) :
                     write_messages[j].bytes[k - write_messages[j].offset + 1]
                        = PayloadByte(k)

\* Scenario A: 10 bytes in chunks of 4 give (0,4), (4,4), (8,2)
C1_Witness ==
    /\ pc = "planned"
    /\ Len(program_data) = 10 /\ chunk_size = 4
    /\ [j \in DOMAIN write_messages |->
          <<write_messages[j].offset, Len(write_messages[j].bytes)>>]
       = <<(<<0, 4>>), (<<4, 4>>), (<<8, 2>>)>>

\* C2: with the chunk size computed for the template, the signed message
\* of every unit of the plan serializes to at most PACKET_DATA_SIZE bytes,
\* the growth of the short_vec length prefix included, and so does a
\* message of any unit length up to the chunk size.
C2_UnitsFitPacket ==
    Planned =>
        /\ \A j \in Units :
              TransactionSize(template, Len(write_messages[j].bytes)) <= PACKET_DATA_SIZE
        /\ \A n \in 0..chunk_size :
              TransactionSize(template, n) <= PACKET_DATA_SIZE

\* a unit that fills the packet exactly, its length prefix one byte longer
\* than the baseline's
C2_Witness ==
    /\ Planned
    /\ \E j \in Units :
        LET n == Len(write_messages[j].bytes)
        IN /\ TransactionSize(template, n) = PACKET_DATA_SIZE
           /\ ShortVecLen(template.data0 + n) > ShortVecLen(template.data0)

\* C3: the chunk size is P - O - 1 for the baseline size O and the packet
\* limit P, and 0 when O + 1 >= P: it never wraps to a large value.
C3_ChunkSizeSaturates ==
    chunk_size # -1 =>
        LET O == TransactionSize(template, 0)
            P == PACKET_DATA_SIZE
        IN /\ chunk_size = IF O + 1 >= P THEN 0 ELSE P - O - 1
           /\ chunk_size >= 0 /\ chunk_size < P

\* a baseline message that alone is larger than the packet
C3_Witness ==
    /\ chunk_size = 0
    /\ TransactionSize(template, 0) > PACKET_DATA_SIZE

WritePcs == {"write_buffer", "write_relay_round_proposal"}
CreatePcs == {"create_buffer", "create_relay_round_proposal"}

AllUnitsConfirmed ==
    /\ dispatch \in {"waiting", "returned"}
    /\ DOMAIN status = Units
    /\ \A i \in Units : status[i] = "ok"

\* C4: no write is submitted before Allocate is confirmed, Finalize is
\* issued only after every unit of the plan is confirmed, and all units are
\* submitted without waiting for the confirmation of earlier ones.
C4_PhaseOrder ==
    /\ (dispatch # "idle" \/ "Write" \in issued) =>
          /\ acct_state # "None"
          /\ run = 1 => "Allocate" \in issued
    /\ "Finalize" \in issued => dispatch = "returned" /\ AllUnitsConfirmed
    /\ dispatch = "waiting" => DOMAIN status = Units

\* Finalize issued after a plan of several units
C4_Witness ==
    /\ "Finalize" \in issued
    /\ Len(write_messages) >= 2

\* C5: when the dispatcher reports k > 0 failed units out of N the run
\* stops with that count, issues no Finalize, Authority-Transfer or other
\* request, and leaves the account an unfinalized buffer holding exactly
\* the N - k confirmed chunks at their offsets.
C5_HaltsBeforeFinalize ==
    (dispatch = "returned" /\ Failed # {}) =>
        LET written == UNION {UnitRange(write_messages[i]) : i \in Confirmed}
        IN /\ result = WriteTransactions(Cardinality(Failed))
           /\ pc \in WritePcs
           /\ issued \subseteq {"Allocate", "Write"}
           /\ acct_state = "Buffer"
           /\ Cardinality(Confirmed) = Len(write_messages) - Cardinality(Failed)
           /\ \A i \in Confirmed : \A k \in UnitRange(write_messages[i]) :
                /\ k \in DOMAIN acct_data
                /\ acct_data[k] = PayloadByte(k)
           /\ \A k \in DOMAIN acct_data \ written :
                k \in DOMAIN before /\ acct_data[k] = before[k]

\* some units failed, others are applied
C5_Witness ==
    /\ dispatch = "returned"
    /\ Failed # {} /\ Confirmed # {}
    /\ result.kind = "WriteTransactions"

\* the write phase returned Ok and main went on
WriteReturnedOk == run > 0 /\ pc \notin WritePcs \cup CreatePcs \cup {"start"}

\* the write phase returned an error (or panicked)
WriteReturnedErr == pc \in WritePcs /\ result # Running

Phases == {"Allocate", "Write", "Finalize", "AuthorityTransfer"}

\* the Error variants each phase's calls can return
ErrorKinds(ph) ==
    CASE ph = "Allocate" -> {"ClientError", "InstructionError"}
      [] ph = "Write" -> {"ClientError", "ConfigReadError", "ConfigParseError",
                          "InvalidConfig", "TpuSenderError", "WriteTransactions",
                          "StdIoError"}
      [] ph = "Finalize" -> {"ClientError", "InstructionError"}
      [] ph = "AuthorityTransfer" -> {"ClientError"}

PhaseOf(at) ==
    CASE at \in CreatePcs -> "Allocate"
      [] at \in WritePcs -> "Write"
      [] at \in {"deploy", "finalize_relay_round_proposal"} -> "Finalize"
      [] at \in {"set_program_authority", "set_buffer_authority"} -> "AuthorityTransfer"
      [] OTHER -> "None"

\* the phases in which an error of this kind can be returned
PhasesReturning(kind) == {ph \in Phases : kind \in ErrorKinds(ph)}

\* the errors of the model are those the phases return
ErrorKindsSound ==
    (result.kind \notin {"Running", "Ok", "Panic"} /\ PhaseOf(pc) # "None") =>
        PhaseOf(pc) \in PhasesReturning(result.kind)

\* the create request was sent and no account came to exist
AllocateRejected == "Allocate" \in issued /\ acct_state = "None"

\* C7 as stated: the error returned identifies Allocate as the phase that
\* failed, and no Write and no Finalize is issued.
C7_Original ==
    AllocateRejected =>
        /\ PhasesReturning(result.kind) = {"Allocate"}
        /\ "Write" \notin issued /\ "Finalize" \notin issued

\* C7: a rejected Allocate ends the run with the client error, which names
\* no phase, and nothing is issued after it: no Write, no Finalize.
C7_AllocateRejectedStops ==
    AllocateRejected =>
        /\ result = Err("ClientError")
        /\ pc \in CreatePcs
        /\ issued = {"Allocate"}
        /\ dispatch = "idle" /\ run = 0 /\ status = <<>>

C7_Witness ==
    /\ AllocateRejected
    /\ result.kind = "ClientError"
    /\ Len(program_data) > 0

AllMatch(d) ==
    \A k \in 0..(Len(program_data) - 1) : k \in DOMAIN d /\ d[k] = PayloadByte(k)

\* C9: the units of a plan write disjoint ranges, so in whatever order they
\* are confirmed, once all are confirmed bytes [0, L) are the payload.
C9_OrderIndependent ==
    /\ Planned =>
          \A i, j \in Units :
              i # j => UnitRange(write_messages[i]) \cap UnitRange(write_messages[j]) = {}
    /\ AllUnitsConfirmed => AllMatch(acct_data)

C9_Witness ==
    /\ AllUnitsConfirmed
    /\ Len(write_messages) >= 3

\* C10: a later write phase with the same payload on the same unfinalized
\* account rewrites written bytes with the same values, changes nothing
\* when the account already holds the payload, and when all its units are
\* confirmed leaves bytes [0, L) equal to the payload.
C10_RerunSafe ==
    /\ \A k \in DOMAIN before : k \in DOMAIN acct_data /\ acct_data[k] = before[k]
    /\ (run >= 2 /\ AllMatch(before)) => acct_data = before
    /\ (run >= 2 /\ AllUnitsConfirmed) => AllMatch(acct_data)

\* a second run completes an account the first run left partly written
C10_Witness ==
    /\ run = 2
    /\ AllUnitsConfirmed
    /\ Len(write_messages) >= 2
    /\ before # <<>>
    /\ ~AllMatch(before)

\* the write phase computed a chunk size of zero
ZeroChunkSize == chunk_size = 0 /\ pc \in WritePcs

RelaysOutOfRange ==
    /\ cmd = "create-relay-round"
    /\ (proposal_relays < MIN_RELAYS \/ proposal_relays > MAX_RELAYS)

\* C12: a proposal with fewer than MIN_RELAYS or more than MAX_RELAYS
\* relays is rejected while the arguments are parsed: the run never gets
\* past get_matches, so the record is not serialized, and no Allocate,
\* Write or Finalize request is issued for it.
C12_RelaysValidatedFirst ==
    RelaysOutOfRange =>
        /\ pc = "get_matches"
        /\ result \in {Running, Err("ArgumentError")}
        /\ issued = {}
        /\ acct_state = "None"
        /\ run = 0

\* one relay too few, rejected
C12_Witness ==
    /\ proposal_relays = MIN_RELAYS - 1
    /\ result = Err("ArgumentError")
    /\ Len(program_data) > 0

\* C14 as stated: on every path the account allocated is exactly as long
\* as the payload the write phase uploads.
C14_Original == acct_state # "None" => acct_len = Len(program_data)

\* C14: upload-program-buffer allocates a buffer exactly as long as the
\* program; deploy allocates max_data_len bytes, 1000 times the value of
\* --program-size when it parses and the length of the program otherwise,
\* whatever the length of the program.
C14_AllocateLength ==
    (Executable /\ acct_state # "None") =>
        IF cmd = "deploy" /\ program_size >= 0
        THEN acct_len = program_size * PROGRAM_SIZE_UNIT
        ELSE acct_len = Len(program_data)

\* deploy --program-size 1: a 1000-byte buffer for a 3-byte program
C14_Witness ==
    /\ cmd = "deploy" /\ acct_state = "Buffer"
    /\ program_size = 1
    /\ acct_len = PROGRAM_SIZE_UNIT
    /\ Len(program_data) = MaxLen

\* C15 as stated: every write unit submitted lies inside the account that
\* was allocated in the run, offset + length <= account length.
C15_Original ==
    \A i \in DOMAIN status :
        write_messages[i].offset + Len(write_messages[i].bytes) <= acct_len

C17_AuthorityAfterFinalize ==
    /\ (cmd = "deploy" /\ acct_state = "Finalized") =>
          /\ upgrade_authority \in {"payer", "authority"}
          /\ "Finalize" \in issued
          /\ upgrade_authority = "authority" <=> (pc = "done" /\ result = Ok)
          /\ upgrade_authority = "authority" => "AuthorityTransfer" \in issued
          /\ (pc = "set_program_authority" /\ result = Err("ClientError"))
                => upgrade_authority = "payer"
    /\ (cmd # "deploy" \/ acct_state # "Finalized") => upgrade_authority = "none"

\* the transfer was issued and failed: the payer keeps the program
C17_Witness ==
    /\ cmd = "deploy" /\ acct_state = "Finalized"
    /\ "AuthorityTransfer" \in issued
    /\ result = Err("ClientError")
    /\ upgrade_authority = "payer"

\* C18 as stated: the maximum length handed to Finalize is the value the
\* operator gave for --program-size when there is one, and the length of
\* the payload otherwise, and it is not smaller than the payload.
C18_Original ==
    programdata_len # -1 =>
        /\ programdata_len = IF program_size >= 0 THEN program_size
                             ELSE Len(program_data)
        /\ programdata_len >= Len(program_data)

\* C18: the maximum length handed to Finalize is 1000 times the value of
\* --program-size when that value parses, and the length of the payload
\* otherwise; it is never smaller than the payload that was written,
\* since Finalize is only reached once every unit was accepted by a buffer
\* of that same length.
C18_FinalizeEnvelope ==
    programdata_len # -1 =>
        /\ cmd = "deploy" /\ "Finalize" \in issued
        /\ programdata_len = IF program_size >= 0
                             THEN program_size * PROGRAM_SIZE_UNIT
                             ELSE Len(program_data)
        /\ programdata_len >= Len(program_data)
        /\ programdata_len = acct_len

\* --program-size 1: the program is deployed with room for 1000 bytes
C18_Witness ==
    /\ program_size = 1
    /\ programdata_len = PROGRAM_SIZE_UNIT
    /\ Len(program_data) = MaxLen
    /\ acct_state = "Finalized"

\* C19 as stated: on the executable paths a set-authority request is only
\* issued in a run in which Finalize has succeeded before.
C19_Original ==
    (Executable /\ "AuthorityTransfer" \in issued) =>
        /\ "Finalize" \in issued
        /\ acct_state = "Finalized"

\* C19: deploy issues its set-authority request only after Finalize has
\* succeeded in the same run; upload-program-buffer has no Finalize and
\* issues its set-authority request for the buffer once the write phase
\* has succeeded, while the buffer is written but not finalized.
C19_TransferAfterFinalize ==
    "AuthorityTransfer" \in issued =>
        /\ Executable
        /\ dispatch = "returned" /\ AllUnitsConfirmed
        /\ IF cmd = "deploy"
           THEN /\ "Finalize" \in issued
                /\ acct_state = "Finalized"
                /\ pc \in {"set_program_authority", "done"}
           ELSE /\ "Finalize" \notin issued
                /\ acct_state = "Buffer"
                /\ pc \in {"set_buffer_authority", "done"}

\* upload-program-buffer handed the written buffer to the new authority
C19_Witness ==
    /\ cmd = "upload-program-buffer"
    /\ "AuthorityTransfer" \in issued
    /\ acct_authority = "authority"
    /\ acct_state = "Buffer"
    /\ Len(write_messages) >= 2

\* the failures a dispatch that returned reports to the write phase
FailureCount(outcome) == Cardinality({i \in DOMAIN outcome : outcome[i] = "err"})

\* the bytes and the failure count of the dispatch that returned are those
\* of a sequential dispatch of the same plan with the same outcomes
SameAsSequential ==
    dispatch = "returned" =>
        /\ acct_data = sequential_dispatch(before, write_messages, status, 1)
        /\ result.count = FailureCount(status)

\* C20 as stated: both a sequential and a high-throughput dispatch are
\* available, and they give the same final bytes and failure count.
C20_Original ==
    /\ {"sequential", "high-throughput"} \subseteq DispatchModes
    /\ SameAsSequential

\* C20: only the high-throughput dispatch exists; for a plan and per-unit
\* outcomes it leaves the account bytes and the failure count a sequential
\* dispatch in plan order with the same outcomes would leave.
C20_HighThroughputOnly ==
    /\ DispatchModes = {"high-throughput"}
    /\ SameAsSequential

\* a dispatch that returned with a unit failed and later units applied
C20_Witness ==
    /\ dispatch = "returned"
    /\ Len(write_messages) >= 3
    /\ status[1] = "ok" /\ status[2] = "err" /\ status[3] = "ok"
    /\ acct_data # before

\* a write phase was entered for a payload of no bytes
EmptyPayloadWrite == Len(program_data) = 0 /\ run > 0

\* the calls main makes once the write phase has returned Ok
CallsAfterWrite ==
    CASE cmd = "deploy" -> {"program_keypair", "deploy", "set_program_authority", "done"}
      [] cmd = "upload-program-buffer" -> {"set_buffer_authority", "done"}
      [] OTHER -> {"finalize_relay_round_proposal", "done"}

AllocatedAccount == request_accounts("Allocate")

C23_PayerHoldsBuffer ==
    Executable =>
        /\ acct_state # "None" => acct_authority \in {"payer", "authority"}
        /\ (acct_state # "None" /\ "AuthorityTransfer" \notin issued) =>
              acct_authority = "payer"
        /\ (dispatch # "idle" /\ pc \in WritePcs) =>
              /\ write_signer = "payer"
              /\ acct_authority = write_signer
        /\ acct_authority = "authority" =>
              /\ cmd = "upload-program-buffer"
              /\ dispatch = "returned" /\ AllUnitsConfirmed
              /\ pc = "done" /\ result = Ok

\* the buffer was handed over after three confirmed writes
C23_Witness ==
    /\ cmd = "upload-program-buffer"
    /\ acct_authority = "authority"
    /\ Len(write_messages) = MaxLen
    /\ AllMatch(acct_data)

\* the offset of the message for chunk i has been computed
OffsetComputed == pc = "created"

\* C24 as stated: the offset a write message carries is the true offset
\* i * chunk_size of its chunk, the product fits 32 bits, and no unit
\* after the first carries the offset 0 of the first.
C24_Original ==
    OffsetComputed =>
        LET true_offset == usize_mul(unit_index, chunk_size)
        IN /\ true_offset.top = 0
           /\ message_offset = [hi |-> true_offset.hi, lo |-> true_offset.lo]
           /\ unit_index > 0 => message_offset # [hi |-> 0, lo |-> 0]

\* the keypair file is written in this step
KeypairFileWritten == keypair_file' # keypair_file

\* C25: on deploy without --program-keypair the keypair made for the
\* program is written to the keypair file only once the write phase has
\* returned Ok and before Finalize is issued in the run; when writing the
\* file fails main returns the error and Finalize is not issued, so
\* whenever Finalize was issued for a generated keypair the file exists.
C25_KeypairBeforeFinalize ==
    /\ [][KeypairFileWritten =>
            /\ cmd = "deploy" /\ ~program_keypair_given
            /\ dispatch = "returned" /\ AllUnitsConfirmed
            /\ "Finalize" \notin issued /\ acct_state = "Buffer"
            /\ keypair_file' = "written"]_vars
    /\ []((cmd = "deploy" /\ ~program_keypair_given
            /\ ("Finalize" \in issued \/ acct_state = "Finalized"))
          => keypair_file = "written")
    /\ []((pc = "program_keypair" /\ result # Running)
          => ("Finalize" \notin issued /\ acct_state = "Buffer"
              /\ result = Err("KeypairReadError")))
    /\ [](program_keypair_given => keypair_file = "absent")

\* writing the keypair file failed after two confirmed writes: nothing is
\* deployed
C25_Witness ==
    /\ cmd = "deploy" /\ ~program_keypair_given
    /\ pc = "program_keypair" /\ result = Err("KeypairReadError")
    /\ keypair_file = "absent"
    /\ Len(write_messages) >= 2
    /\ acct_state = "Buffer"

=============================================================================
